---- MODULE Spec2Model ----
(***************************************************************************)
(* A model of the strider-sandbox HTTP server (src/src/server.ts):         *)
(* the request listener created by Server.start, the NDJSON emitter, the   *)
(* body parser and the two injected handlers (onPrompt, onHealthCheck),    *)
(* which are the environment.  One action per run of the listener between  *)
(* two suspension points (await), and one per step of a handler.           *)
(***************************************************************************)
EXTENDS Integers, Sequences, FiniteSets, TLC

\* ------------------------------------------------------------------------
\* Bounds of the model.
\* ------------------------------------------------------------------------

\* The number of emitter calls one prompt handler invocation makes at most.
MaxCalls == 2

\* The number of calls of Server.start, and of Server.stop.
MaxStarts == 2
MaxStops == 2

\* ------------------------------------------------------------------------
\* JavaScript values.  Every value is a record [t, v]: t is the type tag,
\* v the payload (characters of a string, digits of a number, members of an
\* object as <<key, value>> pairs in property order, items of an array).
\* ------------------------------------------------------------------------

Undefined == [t |-> "undefined", v |-> <<>>]
Null == [t |-> "null", v |-> <<>>]
Str(chars) == [t |-> "string", v |-> chars]
Num(digits) == [t |-> "number", v |-> digits]
Obj(members) == [t |-> "object", v |-> members]
Arr(items) == [t |-> "array", v |-> items]

\* The characters of "Hello" are kept as one token each where that loses
\* nothing; "\n" and "\"" are the characters JSON.stringify has to escape.
NL == "\n"
QUOTE == "\""

\* ------------------------------------------------------------------------
\* JSON.stringify (src/src/server.ts:38, 158, 168, 194, 199), on the values
\* above.  The result is the sequence of the characters of the JSON text.
\* ------------------------------------------------------------------------

\* A character of a string as it appears between the quotes of a JSON string.
EscapeChar(c) ==
  IF c = NL THEN "\\n"
  ELSE IF c = QUOTE THEN "\\\""
  ELSE c

EscapeChars(chars) == [i \in 1..Len(chars) |-> EscapeChar(chars[i])]

RECURSIVE Stringify(_)
RECURSIVE StringifyMembers(_, _)
RECURSIVE StringifyItems(_, _)

\* The members of an object from position i on; a member whose value is
\* undefined is left out, the others are separated by commas.
StringifyMembers(members, i) ==
  IF i > Len(members) THEN <<>>
  ELSE LET key == members[i][1]
           val == members[i][2]
           rest == StringifyMembers(members, i + 1)
       IN IF val.t = "undefined" THEN rest
          ELSE <<QUOTE, key, QUOTE, ":">> \o Stringify(val)
               \o (IF rest = <<>> THEN <<>> ELSE <<",">> \o rest)

\* The items of an array from position i on; an undefined item prints as null.
StringifyItems(items, i) ==
  IF i > Len(items) THEN <<>>
  ELSE (IF items[i].t = "undefined" THEN <<"null">> ELSE Stringify(items[i]))
       \o (IF i < Len(items) THEN <<",">> ELSE <<>>)
       \o StringifyItems(items, i + 1)

Stringify(val) ==
  CASE val.t = "string" -> <<QUOTE>> \o EscapeChars(val.v) \o <<QUOTE>>
    [] val.t = "number" -> val.v
    [] val.t = "null" -> <<"null">>
    [] val.t = "object" -> <<"{">> \o StringifyMembers(val.v, 1) \o <<"}">>
    [] val.t = "array" -> <<"[">> \o StringifyItems(val.v, 1) \o <<"]">>
    [] OTHER -> <<>>

\* ------------------------------------------------------------------------
\* http.ServerResponse, as far as the listener uses it.
\*   statusCode, headers  what writeHead committed (0 and {} before)
\*   headersSent          writeHead has run
\*   body                 the characters written by write and end, in order
\*   ended                end has run
\*   writeHeadCalls       every status writeHead was called with, in order,
\*                        the calls that threw included
\*   endCalls             how often end was called
\* ------------------------------------------------------------------------

NewResponse ==
  [statusCode |-> 0, headers |-> {}, headersSent |-> FALSE, body |-> <<>>,
   ended |-> FALSE, writeHeadCalls |-> <<>>, endCalls |-> 0]

JsonHeaders == {<<"Content-Type", "application/json">>}

NdjsonHeaders ==
  {<<"Content-Type", "application/x-ndjson">>,
   <<"Transfer-Encoding", "chunked">>,
   <<"Cache-Control", "no-cache">>,
   <<"Connection", "keep-alive">>}

\* res.writeHead throws ERR_HTTP_HEADERS_SENT once the headers are committed.
WriteHeadThrows(res) == res.headersSent

WriteHead(res, status, headers) ==
  IF WriteHeadThrows(res)
  THEN [res EXCEPT !.writeHeadCalls = Append(@, status)]
  ELSE [res EXCEPT !.statusCode = status, !.headers = headers,
                   !.headersSent = TRUE,
                   !.writeHeadCalls = Append(@, status)]

\* res.write(chunk): appends the chunk to the body of a response that is open.
ResWrite(res, chunk) ==
  IF res.ended THEN res ELSE [res EXCEPT !.body = @ \o chunk]

\* res.end(chunk): writes the last chunk and finishes the response.
ResEnd(res, chunk) ==
  IF res.ended THEN [res EXCEPT !.endCalls = @ + 1]
  ELSE [res EXCEPT !.body = @ \o chunk, !.ended = TRUE, !.endCalls = @ + 1]

\* ------------------------------------------------------------------------
\* The emitter (createEmitter, src/src/server.ts:36-63) and the EventEmitter
\* interface the prompt handler is written against (src/src/types.ts:95-125).
\* A call is [op, args]: the operation's name and its arguments as passed.
\* ------------------------------------------------------------------------

\* The operations the EventEmitter interface declares.
InterfaceOps == {"textChunk", "toolStart", "toolDone", "error", "done", "custom"}

\* The properties of the object createEmitter returns.
EmitterOps == {"textChunk", "toolStart", "toolDone", "error", "done"}

Call(op, args) == [op |-> op, args |-> args]

\* The event object an emitter operation builds from its arguments.
EventOf(call) ==
  CASE call.op = "textChunk" ->
         Obj(<< <<"type", Str(<<"text_chunk">>)>>, <<"text", call.args[1]>> >>)
    [] call.op = "toolStart" ->
         Obj(<< <<"type", Str(<<"tool_start">>)>>, <<"id", call.args[1]>>,
                <<"name", call.args[2]>>, <<"arguments", call.args[3]>> >>)
    [] call.op = "toolDone" ->
         Obj(<< <<"type", Str(<<"tool_done">>)>>, <<"id", call.args[1]>>,
                <<"result", call.args[2]>> >>)
    [] call.op = "error" ->
         Obj(<< <<"type", Str(<<"error">>)>>, <<"message", call.args[1]>> >>)
    [] call.op = "done" ->
         Obj(<< <<"type", Str(<<"done">>)>>, <<"result", call.args[1]>> >>)

\* write (server.ts:37-40): one line, the event's JSON and a newline.
EventLine(event) == Stringify(event) \o <<NL>>

EmitWrite(res, event) == ResWrite(res, EventLine(event))

\* Calling an operation of the emitter object: a property the object does
\* not have is undefined, and calling it throws a TypeError in the handler.
EmitterThrows(call) == call.op \notin EmitterOps

\* An emitter whose error and done operations finish the response.
EmitterCallEndsOnDone(res, call) ==
  IF EmitterThrows(call) THEN res
  ELSE IF call.op \in {"error", "done"} THEN ResEnd(res, EventLine(EventOf(call)))
  ELSE EmitWrite(res, EventOf(call))

EmitterCall(res, call) ==
  IF EmitterThrows(call) THEN res ELSE EmitWrite(res, EventOf(call))

\* The message of that TypeError.
NotAFunction(call) == <<"emit.", call.op, " is not a function">>

\* ------------------------------------------------------------------------
\* Thrown values and the message the two catch blocks take from them
\* (server.ts:184, 196): err instanceof Error ? err.message : String(err).
\* ------------------------------------------------------------------------

ErrorOf(message) == [t |-> "Error", v |-> message]

\* An object without a prototype, e.g. Object.create(null): String() of it
\* throws a TypeError, as it has neither toString nor valueOf.
NullProto == [t |-> "nullproto", v |-> <<>>]

MessageThrows(err) == err.t = "nullproto"

MessageOf(err) ==
  CASE err.t = "Error" -> err.v
    [] err.t = "string" -> err.v
    [] err.t = "number" -> err.v
    [] err.t = "null" -> <<"null">>
    [] err.t = "undefined" -> <<"undefined">>
    [] OTHER -> <<"[object Object]">>

\* ------------------------------------------------------------------------
\* parseBody (server.ts:68-88).  A request body is [kind, value]:
\*   "json"       the text of the JSON value `value`
\*   "malformed"  a text JSON.parse rejects (the empty body included)
\*   "aborted"    the request stream emits 'error' before 'end'
\* The result is [ok, value] or [ok, error].
\* ------------------------------------------------------------------------

Body(kind, value) == [kind |-> kind, value |-> value]

InvalidJsonBody == ErrorOf(<<"Invalid JSON body">>)

StreamAborted == ErrorOf(<<"aborted">>)

ParseBody(body) ==
  CASE body.kind = "json" -> [ok |-> TRUE, value |-> body.value]
    [] body.kind = "malformed" -> [ok |-> FALSE, value |-> InvalidJsonBody]
    [] OTHER -> [ok |-> FALSE, value |-> StreamAborted]

\* ------------------------------------------------------------------------
\* The destructuring and the check of the prompt (server.ts:164-170).
\* ------------------------------------------------------------------------

\* body.<key> of a parsed body: the member of an object, undefined for a
\* missing member and for every value that has no such property.
RECURSIVE MemberFrom(_, _, _)
MemberFrom(members, key, i) ==
  IF i > Len(members) THEN Undefined
  ELSE IF members[Len(members) + 1 - i][1] = key
       THEN members[Len(members) + 1 - i][2]
       ELSE MemberFrom(members, key, i + 1)

\* JSON.parse keeps the last of two members with the same key.
Member(val, key) ==
  IF val.t = "object" THEN MemberFrom(val.v, key, 1) ELSE Undefined

\* const { prompt, options = {} } = body throws a TypeError on null.
DestructureThrows(val) == val.t \in {"null", "undefined"}

CannotDestructure ==
  ErrorOf(<<"Cannot destructure property 'prompt' of 'body' as it is null.">>)

\* options = {}: the default applies to undefined only.
PromptOptions(val) ==
  IF Member(val, "options") = Undefined THEN Obj(<<>>)
  ELSE Member(val, "options")

\* !prompt
Falsy(val) ==
  \/ val.t \in {"undefined", "null"}
  \/ val.t = "string" /\ val.v = <<>>
  \/ val.t = "number" /\ val.v = <<"0">>
  \/ val.t = "boolean" /\ val.v = <<"false">>

TypeOf(val) ==
  IF val.t \in {"string", "number", "undefined", "boolean"} THEN val.t
  ELSE "object"

\* The check without its typeof half.
PromptRejectedFalsyOnly(prompt) == Falsy(prompt)

\* if (!prompt || typeof prompt !== "string")
PromptRejected(prompt) == Falsy(prompt) \/ TypeOf(prompt) # "string"

\* ------------------------------------------------------------------------
\* The inputs: requests, what the prompt handler does, what the health
\* handler returns, and what either of them throws.
\* ------------------------------------------------------------------------

Methods == {"GET", "POST"}

Urls == {"/health", "/prompt", "/unknown-path"}

Hello == Str(<<"Hello, world!">>)

\* A sequence of content blocks (PromptContent, src/src/types.ts:29-32).
TextBlocks ==
  Arr(<< Obj(<< <<"type", Str(<<"text">>)>>, <<"text", Str(<<"Hi">>)>> >>) >>)

JsonBodies ==
  {Null,
   Num(<<"4", "2">>),
   Obj(<<>>),
   Obj(<< <<"prompt", Str(<<>>)>> >>),
   Obj(<< <<"prompt", Num(<<"7">>)>> >>),
   Obj(<< <<"prompt", Null>> >>),
   Obj(<< <<"prompt", Hello>> >>),
   Obj(<< <<"prompt", Hello>>, <<"options", Obj(<< <<"model", Str(<<"m">>)>> >>)>> >>),
   Obj(<< <<"prompt", TextBlocks>> >>)}

RequestBodies ==
  {Body("malformed", Undefined), Body("aborted", Undefined)}
    \cup {Body("json", val) : val \in JsonBodies}

NoBody == Body("malformed", Undefined)

\* A text with the two characters that have to be escaped inside a line.
Tricky == Str(<<"a", NL, QUOTE, "b">>)

HandlerCalls ==
  {Call("textChunk", <<Str(<<"Hello ">>)>>),
   Call("textChunk", <<Tricky>>),
   Call("toolStart", <<Str(<<"t1">>), Str(<<"bash">>), Undefined>>),
   Call("toolStart", <<Str(<<"t1">>), Str(<<"bash">>),
                       Obj(<< <<"cmd", Str(<<"ls">>)>> >>)>>),
   Call("toolDone", <<Str(<<"t1">>), Str(<<"ok">>)>>),
   Call("error", <<Str(<<"warn">>)>>),
   Call("done", <<Undefined>>),
   Call("done", <<Str(<<"Complete">>)>>),
   Call("custom", <<Obj(<< <<"type", Str(<<"progress">>)>>,
                           <<"pct", Num(<<"5", "0">>)>> >>)>>)}

\* What a handler rejects with (or throws): an Error, a string, and an
\* object String() cannot convert.
Rejections == {ErrorOf(<<"boom">>), Str(<<"oops">>), NullProto}

HealthResults ==
  {Obj(<< <<"status", Str(<<"ok">>)>> >>),
   Obj(<< <<"status", Str(<<"ok">>)>>, <<"sandbox_id", Str(<<"x">>)>> >>),
   Obj(<< <<"status", Str(<<"ok">>)>>, <<"sandbox_id", Undefined>>,
          <<"timestamp", Str(<<"2026">>)>> >>)}

\* The requests in flight at the same time.
Requests == {"r1"}

\* The requests of the specifications with two clients.
AllRequests == {"r1", "r2"}

\* The http.Server objects Server.start creates, in the order of creation,
\* and the promises Server.stop returns, in the order of the calls.
ServerIds == 1..MaxStarts
StopIds == 1..MaxStops

\* let httpServer: http.Server | null = null (server.ts:136).
NullServer == 0

\* ------------------------------------------------------------------------
\* The state.
\*   httpServer     the http.Server the Server refers to, or NullServer
\*   listeners      the state of each http.Server: "none" (not created),
\*                  "listening", "closing" (close called, connections
\*                  open), "closed" ('close' emitted), "failed" (listen
\*                  failed with EADDRINUSE)
\*   stops          the promise of each stop call: state "none", "pending",
\*                  "resolved" or "rejected"; the http.Server it called
\*                  close on (0: none); whether close found the server
\*                  listening (ok) or not running
\*   conn           the connection of a request: the http.Server that
\*                  accepted it, and whether it is still open
\*   process        "running", or down by an "uncaughtException" or an
\*                  "unhandledRejection"
\*   onHealthCheck  whether options.onHealthCheck is given
\*   pc             where the listener of a request stands:
\*                    "idle"           the request has not arrived
\*                    "parseBody"      awaiting parseBody (line 163)
\*                    "onHealthCheck"  awaiting the health handler (154)
\*                    "onPrompt"       awaiting the prompt handler (182)
\*                    "returned"       the listener has completed
\*                    "rejected"       the listener threw out of its catch
\*   req            the request: method, url, body
\*   res            its response
\*   hstate         the prompt handler's promise: "none" (not invoked),
\*                  "running", "resolved", "rejected"
\*   hcall          the arguments the prompt handler was invoked with, and
\*                  the response as it was at that moment
\*   herr           what the handler of the request rejected with
\*   calls          the emitter calls the prompt handler has made, in order
\*   healthData     what the health handler resolved with
\* ------------------------------------------------------------------------

VARIABLES httpServer, listeners, stops, conn, process, onHealthCheck, pc, req,
          res, hstate, hcall, herr, calls, healthData

vars == <<httpServer, listeners, stops, conn, process, onHealthCheck, pc, req,
          res, hstate, hcall, herr, calls, healthData>>

\* The state of the Server object and of the process.
lifecycle == <<httpServer, listeners, stops, process>>

NoStop == [state |-> "none", on |-> 0, ok |-> TRUE]

NoConn == [via |-> 0, open |-> FALSE]

Running == process = "running"

NoCall == [prompt |-> Undefined, options |-> Undefined, res |-> NewResponse]

Init ==
  /\ httpServer = NullServer
  /\ listeners = [id \in ServerIds |-> "none"]
  /\ stops = [s \in StopIds |-> NoStop]
  /\ conn = [r \in AllRequests |-> NoConn]
  /\ process = "running"
  /\ onHealthCheck \in BOOLEAN
  /\ pc = [r \in AllRequests |-> "idle"]
  /\ req = [r \in AllRequests |-> [method |-> "GET", url |-> "/", body |-> NoBody]]
  /\ res = [r \in AllRequests |-> NewResponse]
  /\ hstate = [r \in AllRequests |-> "none"]
  /\ hcall = [r \in AllRequests |-> NoCall]
  /\ herr = [r \in AllRequests |-> Undefined]
  /\ calls = [r \in AllRequests |-> <<>>]
  /\ healthData = [r \in AllRequests |-> Undefined]

\* The http.Server that a call of start creates next.
NextServer(id) ==
  /\ listeners[id] = "none"
  /\ \A j \in ServerIds : j < id => listeners[j] # "none"

\* The port is taken while an http.Server of this process listens on it.
PortInUse == \E j \in ServerIds : listeners[j] = "listening"

\* Server.start (server.ts:143-209): creates an http.Server, assigns it to
\* httpServer and listens.  Nothing looks at the httpServer there was.  On
\* a port in use the new server emits 'error' (EADDRINUSE), which nothing
\* handles: an uncaught exception.
Start ==
  /\ Running
  /\ \E id \in ServerIds :
       /\ NextServer(id)
       /\ httpServer' = id
       /\ IF PortInUse
          THEN /\ listeners' = [listeners EXCEPT ![id] = "failed"]
               /\ process' = "uncaughtException"
          ELSE /\ listeners' = [listeners EXCEPT ![id] = "listening"]
               /\ UNCHANGED process
  /\ UNCHANGED <<stops, conn, onHealthCheck, pc, req, res, hstate, hcall, herr,
                 calls, healthData>>

\* Server.stop (server.ts:211-228) up to its return: without an httpServer
\* the promise resolves; else httpServer.close(cb) stops a listening server
\* from accepting, and on a server that is not listening registers cb to
\* be called with ERR_SERVER_NOT_RUNNING.
Stop(s) ==
  /\ Running
  /\ stops[s].state = "none"
  /\ \A j \in StopIds : j < s => stops[j].state # "none"
  /\ IF httpServer = NullServer
     THEN /\ stops' = [stops EXCEPT ![s] = [state |-> "resolved", on |-> 0, ok |-> TRUE]]
          /\ UNCHANGED listeners
     ELSE IF listeners[httpServer] = "listening"
     THEN /\ stops' = [stops EXCEPT ![s] =
                         [state |-> "pending", on |-> httpServer, ok |-> TRUE]]
          /\ listeners' = [listeners EXCEPT ![httpServer] = "closing"]
     ELSE /\ stops' = [stops EXCEPT ![s] =
                         [state |-> "pending", on |-> httpServer, ok |-> FALSE]]
          /\ UNCHANGED listeners
  /\ UNCHANGED <<httpServer, process, conn, onHealthCheck, pc, req, res, hstate,
                 hcall, herr, calls, healthData>>

\* The stop promises waiting for the 'close' of an http.Server.
PendingOn(id) == {s \in StopIds : stops[s].state = "pending" /\ stops[s].on = id}

\* An http.Server that does not wait for its connections.
DrainedAtOnce(id) == TRUE

\* No connection that the http.Server accepted is open.
Drained(id) == \A r \in AllRequests : ~(conn[r].open /\ conn[r].via = id)

\* The callback of close (server.ts:218-226), called with or without err.
CloseCallback(stop) ==
  [stop EXCEPT !.state = IF stop.ok THEN "resolved" ELSE "rejected"]

\* An http.Server that close was called on emits 'close' once its
\* connections have ended: the callbacks run in the order of the calls,
\* the one without error clears httpServer (server.ts:223).
CloseEmitted(id) ==
  /\ Running
  /\ listeners[id] \in {"closing", "closed"}
  /\ PendingOn(id) # {}
  /\ Drained(id)
  /\ listeners' = [listeners EXCEPT ![id] = "closed"]
  /\ stops' = [s \in StopIds |->
                IF s \in PendingOn(id) THEN CloseCallback(stops[s]) ELSE stops[s]]
  /\ httpServer' = IF \E s \in PendingOn(id) : CloseCallback(stops[s]).state = "resolved"
                   THEN NullServer ELSE httpServer
  /\ UNCHANGED <<process, conn, onHealthCheck, pc, req, res, hstate, hcall, herr,
                 calls, healthData>>

\* The connection of a request ends after its listener is through.
ConnectionClosed(r) ==
  /\ Running
  /\ conn[r].open
  /\ pc[r] \in {"returned", "rejected"}
  /\ conn' = [conn EXCEPT ![r].open = FALSE]
  /\ UNCHANGED <<lifecycle, onHealthCheck, pc, req, res, hstate, hcall, herr,
                 calls, healthData>>

\* The promise of an async listener that threw is rejected and nothing
\* handles it: the process ends (the default of Node.js) or goes on
\* (--unhandled-rejections=warn).
UnhandledRejection(r) ==
  /\ Running
  /\ pc[r] = "rejected"
  /\ process' = "unhandledRejection"
  /\ UNCHANGED <<httpServer, listeners, stops, conn, onHealthCheck, pc, req, res,
                 hstate, hcall, herr, calls, healthData>>

\* ------------------------------------------------------------------------
\* The pieces of the request listener (server.ts:145-201).  Each yields
\* [res, pc]: the response after the piece has run, and where the listener
\* stands then.
\* ------------------------------------------------------------------------

ErrorBody(message) == Stringify(Obj(<< <<"error", Str(message)>> >>))

\* The outer catch answering without the message of the failure.
OuterCatchHidesMessage(response, err) ==
  IF MessageThrows(err) THEN [res |-> response, pc |-> "rejected"]
  ELSE IF WriteHeadThrows(response)
       THEN [res |-> WriteHead(response, 500, JsonHeaders), pc |-> "rejected"]
       ELSE [res |-> ResEnd(WriteHead(response, 500, JsonHeaders),
                            <<"{", QUOTE, "error", QUOTE, ":", QUOTE,
                              "Internal Server Error", QUOTE, "}">>),
             pc |-> "returned"]

\* The outer catch (lines 195-200), entered with the thrown value.  An
\* exception inside the catch block leaves the listener's promise rejected.
OuterCatch(response, err) ==
  IF MessageThrows(err) THEN [res |-> response, pc |-> "rejected"]
  ELSE IF WriteHeadThrows(response)
       THEN [res |-> WriteHead(response, 500, JsonHeaders), pc |-> "rejected"]
       ELSE [res |-> ResEnd(WriteHead(response, 500, JsonHeaders),
                            ErrorBody(MessageOf(err))),
             pc |-> "returned"]

\* Lines 193-194.
NotFound(response) ==
  [res |-> ResEnd(WriteHead(response, 404, JsonHeaders),
                  ErrorBody(<<"Not found">>)),
   pc |-> "returned"]

\* The health answer that ignores the handler's result.
HealthRespondDefault(response, data) ==
  [res |-> ResEnd(WriteHead(response, 200, JsonHeaders),
                  Stringify(Obj(<< <<"status", Str(<<"ok">>)>> >>))),
   pc |-> "returned"]

\* Lines 157-159.  JSON.stringify runs after writeHead(200).
HealthRespond(response, data) ==
  [res |-> ResEnd(WriteHead(response, 200, JsonHeaders), Stringify(data)),
   pc |-> "returned"]

\* Lines 167-169.
RejectPrompt(response) ==
  [res |-> ResEnd(WriteHead(response, 400, JsonHeaders),
                  ErrorBody(<<"Missing or invalid 'prompt' field">>)),
   pc |-> "returned"]

\* Lines 172-177: the commit to the streaming response.
StreamCommit(response) == WriteHead(response, 200, NdjsonHeaders)

\* The call of options.onPrompt placed before the commit.
InvokeBeforeCommit(response, parsed) ==
  [res |-> StreamCommit(response),
   call |-> [prompt |-> Member(parsed, "prompt"),
             options |-> PromptOptions(parsed),
             res |-> response]]

\* Lines 172-182: the commit, then the call of options.onPrompt with the
\* prompt, the emitter on this response, and the options.
InvokePrompt(response, parsed) ==
  LET committed == StreamCommit(response)
  IN [res |-> committed,
      call |-> [prompt |-> Member(parsed, "prompt"),
                options |-> PromptOptions(parsed),
                res |-> committed]]

\* Lines 183-190 after the handler has resolved: res.end().
EndStream(response) == [res |-> ResEnd(response, <<>>), pc |-> "returned"]

\* The inner catch with res.end() placed before emit.error(message).
InnerCatchEndsFirst(response, err) ==
  IF MessageThrows(err)
  THEN OuterCatch(response,
                  ErrorOf(<<"Cannot convert object to primitive value">>))
  ELSE [res |-> EmitterCall(ResEnd(response, <<>>),
                            Call("error", <<Str(MessageOf(err))>>)),
        pc |-> "returned"]

\* Lines 183-190 after the handler has rejected with err: the inner catch
\* writes an error event, then res.end().  String(err) throwing inside the
\* inner catch is caught by the outer one.
InnerCatch(response, err) ==
  IF MessageThrows(err)
  THEN OuterCatch(response,
                  ErrorOf(<<"Cannot convert object to primitive value">>))
  ELSE EndStream(EmitterCall(response, Call("error", <<Str(MessageOf(err))>>)))

\* ------------------------------------------------------------------------
\* The actions.
\* ------------------------------------------------------------------------

Finish(r, out) ==
  /\ res' = [res EXCEPT ![r] = out.res]
  /\ pc' = [pc EXCEPT ![r] = out.pc]

\* The routing on the url alone.
RouteByUrl(method, url) ==
  IF url = "/health" THEN "health"
  ELSE IF url = "/prompt" THEN "prompt"
  ELSE "notFound"

\* The two conditions of the routing (lines 152, 162) and the fall-through.
Route(method, url) ==
  IF url = "/health" /\ method = "GET" THEN "health"
  ELSE IF url = "/prompt" /\ method = "POST" THEN "prompt"
  ELSE "notFound"

\* A request arrives and the listener runs to its first await or to its end
\* (lines 145-163, 193-194).  The body is read on POST /prompt only.
Request(r, method, url, body) ==
  /\ Running
  /\ PortInUse
  /\ conn' = [conn EXCEPT ![r] =
               [via |-> CHOOSE id \in ServerIds : listeners[id] = "listening",
                open |-> TRUE]]
  /\ pc[r] = "idle"
  /\ (method = "POST" /\ url = "/prompt") \/ body = NoBody
  /\ req' = [req EXCEPT ![r] = [method |-> method, url |-> url, body |-> body]]
  /\ IF Route(method, url) = "health"
     THEN IF onHealthCheck
          THEN /\ pc' = [pc EXCEPT ![r] = "onHealthCheck"]
               /\ UNCHANGED <<res, healthData>>
          ELSE /\ Finish(r, HealthRespond(res[r], Obj(<< <<"status", Str(<<"ok">>)>> >>)))
               /\ UNCHANGED healthData
     ELSE IF Route(method, url) = "prompt"
          THEN /\ pc' = [pc EXCEPT ![r] = "parseBody"]
               /\ UNCHANGED <<res, healthData>>
          ELSE /\ Finish(r, NotFound(res[r]))
               /\ UNCHANGED healthData
  /\ UNCHANGED <<lifecycle, onHealthCheck, hstate, hcall, herr, calls>>

\* The health handler resolves with data: lines 154-159.
HealthResolved(r, data) ==
  /\ Running
  /\ pc[r] = "onHealthCheck"
  /\ healthData' = [healthData EXCEPT ![r] = data]
  /\ Finish(r, HealthRespond(res[r], data))
  /\ UNCHANGED <<lifecycle, conn, onHealthCheck, req, hstate, hcall, herr, calls>>

\* The health handler rejects with err: the outer catch, lines 195-200.
HealthRejected(r, err) ==
  /\ Running
  /\ pc[r] = "onHealthCheck"
  /\ herr' = [herr EXCEPT ![r] = err]
  /\ Finish(r, OuterCatch(res[r], err))
  /\ UNCHANGED <<lifecycle, conn, onHealthCheck, req, hstate, hcall, calls,
                 healthData>>

\* parseBody has settled: lines 163-182, up to the call of the prompt
\* handler, or the outer catch.
BodyParsed(r) ==
  /\ Running
  /\ pc[r] = "parseBody"
  /\ LET parsed == ParseBody(req[r].body)
     IN IF ~parsed.ok
        THEN /\ Finish(r, OuterCatch(res[r], parsed.value))
             /\ UNCHANGED <<hstate, hcall>>
        ELSE IF DestructureThrows(parsed.value)
        THEN /\ Finish(r, OuterCatch(res[r], CannotDestructure))
             /\ UNCHANGED <<hstate, hcall>>
        ELSE IF PromptRejected(Member(parsed.value, "prompt"))
        THEN /\ Finish(r, RejectPrompt(res[r]))
             /\ UNCHANGED <<hstate, hcall>>
        ELSE LET inv == InvokePrompt(res[r], parsed.value)
             IN /\ res' = [res EXCEPT ![r] = inv.res]
                /\ pc' = [pc EXCEPT ![r] = "onPrompt"]
                /\ hstate' = [hstate EXCEPT ![r] = "running"]
                /\ hcall' = [hcall EXCEPT ![r] = inv.call]
  /\ UNCHANGED <<lifecycle, conn, onHealthCheck, req, herr, calls, healthData>>

\* One emitter for every request, over the response of the first one.
EmitterOfFirst(r) == "r1"

\* createEmitter(res), line 179: the emitter of a request is made in its own
\* run of the listener, over its own response.
EmitterOf(r) == r

\* The prompt handler calls an operation the emitter has: one line written.
HandlerEmit(r, call) ==
  /\ Running
  /\ hstate[r] = "running"
  /\ Len(calls[r]) < MaxCalls
  /\ ~EmitterThrows(call)
  /\ calls' = [calls EXCEPT ![r] = Append(@, call)]
  /\ res' = [res EXCEPT ![EmitterOf(r)] = EmitterCall(@, call)]
  /\ UNCHANGED <<lifecycle, conn, onHealthCheck, pc, req, hstate, hcall, herr,
                 healthData>>

\* The prompt handler calls an operation the emitter lacks: the call throws
\* a TypeError, which the handler catches and goes on, or which rejects it.
HandlerEmitThrows(r, call, caught) ==
  /\ Running
  /\ hstate[r] = "running"
  /\ Len(calls[r]) < MaxCalls
  /\ EmitterThrows(call)
  /\ calls' = [calls EXCEPT ![r] = Append(@, call)]
  /\ res' = [res EXCEPT ![EmitterOf(r)] = EmitterCall(@, call)]
  /\ IF caught
     THEN UNCHANGED <<hstate, herr>>
     ELSE /\ hstate' = [hstate EXCEPT ![r] = "rejected"]
          /\ herr' = [herr EXCEPT ![r] = ErrorOf(NotAFunction(call))]
  /\ UNCHANGED <<lifecycle, conn, onHealthCheck, pc, req, hcall, healthData>>

\* The prompt handler's promise resolves.
HandlerResolve(r) ==
  /\ Running
  /\ hstate[r] = "running"
  /\ hstate' = [hstate EXCEPT ![r] = "resolved"]
  /\ UNCHANGED <<lifecycle, conn, onHealthCheck, pc, req, res, hcall, herr, calls,
                 healthData>>

\* The prompt handler throws or its promise rejects with err.
HandlerReject(r, err) ==
  /\ Running
  /\ hstate[r] = "running"
  /\ hstate' = [hstate EXCEPT ![r] = "rejected"]
  /\ herr' = [herr EXCEPT ![r] = err]
  /\ UNCHANGED <<lifecycle, conn, onHealthCheck, pc, req, res, hcall, calls,
                 healthData>>

\* The await of the prompt handler returns or throws: lines 183-190.
PromptSettled(r) ==
  /\ Running
  /\ pc[r] = "onPrompt"
  /\ hstate[r] \in {"resolved", "rejected"}
  /\ IF hstate[r] = "resolved"
     THEN Finish(r, EndStream(res[r]))
     ELSE Finish(r, InnerCatch(res[r], herr[r]))
  /\ UNCHANGED <<lifecycle, conn, onHealthCheck, req, hstate, hcall, herr, calls,
                 healthData>>

Next ==
  \/ Start
  \/ \E r \in Requests, method \in Methods, url \in Urls, body \in RequestBodies :
       Request(r, method, url, body)
  \/ \E r \in Requests, data \in HealthResults : HealthResolved(r, data)
  \/ \E r \in Requests, err \in Rejections : HealthRejected(r, err)
  \/ \E r \in Requests : BodyParsed(r)
  \/ \E r \in Requests, call \in HandlerCalls : HandlerEmit(r, call)
  \/ \E r \in Requests, call \in HandlerCalls, caught \in BOOLEAN :
       HandlerEmitThrows(r, call, caught)
  \/ \E r \in Requests : HandlerResolve(r)
  \/ \E r \in Requests, err \in Rejections : HandlerReject(r, err)
  \/ \E r \in Requests : PromptSettled(r)
  \/ \E r \in Requests : UnhandledRejection(r)

Spec == Init /\ [][Next]_vars

\* The listener is a chain of promise continuations: once the promise it
\* awaits has settled, the continuation runs.
FairSpec ==
  /\ Spec
  /\ \A r \in Requests : WF_vars(BodyParsed(r)) /\ WF_vars(PromptSettled(r))

\* ------------------------------------------------------------------------
\* The life of the Server: start and stop in any order and number, around
\* one client that sends a prompt and a handler that streams.
\* ------------------------------------------------------------------------

LifeBodies == {Body("json", Obj(<< <<"prompt", Hello>> >>))}

LifeCalls ==
  {Call("textChunk", <<Str(<<"Hello ">>)>>),
   Call("done", <<Undefined>>),
   Call("custom", <<Obj(<< <<"type", Str(<<"progress">>)>> >>)>>)}

LifeRejections == {ErrorOf(<<"boom">>), NullProto}

LifeNext ==
  \/ Start
  \/ \E s \in StopIds : Stop(s)
  \/ \E id \in ServerIds : CloseEmitted(id)
  \/ \E r \in Requests : ConnectionClosed(r)
  \/ \E r \in Requests, body \in LifeBodies : Request(r, "POST", "/prompt", body)
  \/ \E r \in Requests : BodyParsed(r)
  \/ \E r \in Requests, call \in LifeCalls : HandlerEmit(r, call)
  \/ \E r \in Requests, call \in LifeCalls, caught \in BOOLEAN :
       HandlerEmitThrows(r, call, caught)
  \/ \E r \in Requests : HandlerResolve(r)
  \/ \E r \in Requests, err \in LifeRejections : HandlerReject(r, err)
  \/ \E r \in Requests : PromptSettled(r)
  \/ \E r \in Requests : UnhandledRejection(r)

LifeSpec == Init /\ [][LifeNext]_vars

\* ------------------------------------------------------------------------
\* Two clients at the same time: each sends a prompt or asks for the
\* health, and the handlers run interleaved.
\* ------------------------------------------------------------------------

ConcCalls == LifeCalls

ConcRejections == LifeRejections

ConcHealthResults == {Obj(<< <<"status", Str(<<"ok">>)>> >>)}

ConcNext ==
  \/ Start
  \/ \E r \in AllRequests, body \in LifeBodies : Request(r, "POST", "/prompt", body)
  \/ \E r \in AllRequests : Request(r, "GET", "/health", NoBody)
  \/ \E r \in AllRequests, data \in ConcHealthResults : HealthResolved(r, data)
  \/ \E r \in AllRequests, err \in ConcRejections : HealthRejected(r, err)
  \/ \E r \in AllRequests : BodyParsed(r)
  \/ \E r \in AllRequests, call \in ConcCalls : HandlerEmit(r, call)
  \/ \E r \in AllRequests, call \in ConcCalls, caught \in BOOLEAN :
       HandlerEmitThrows(r, call, caught)
  \/ \E r \in AllRequests : HandlerResolve(r)
  \/ \E r \in AllRequests, err \in ConcRejections : HandlerReject(r, err)
  \/ \E r \in AllRequests : PromptSettled(r)
  \/ \E r \in AllRequests : UnhandledRejection(r)

ConcSpec == Init /\ [][ConcNext]_vars

\* ------------------------------------------------------------------------
\* What a client reads from a response.
\* ------------------------------------------------------------------------

\* The lines of an NDJSON body: the characters before each newline.  `rest`
\* is what follows the last newline.
Newlines(body) == {i \in 1..Len(body) : body[i] = NL}

\* The position of the k-th newline of the body; 0 for k = 0.
NewlineAt(body, k) ==
  IF k = 0 THEN 0
  ELSE CHOOSE i \in Newlines(body) :
         Cardinality({j \in Newlines(body) : j < i}) = k - 1

BodyLines(body) ==
  LET n == Cardinality(Newlines(body))
  IN [lines |-> [k \in 1..n |->
                  SubSeq(body, NewlineAt(body, k - 1) + 1, NewlineAt(body, k) - 1)],
      rest |-> SubSeq(body, NewlineAt(body, n) + 1, Len(body))]

\* The event a call stands for in the EventEmitter interface: custom passes
\* the caller's object, the others build theirs.
DeclaredEvent(call) ==
  IF call.op = "custom" THEN call.args[1] ELSE EventOf(call)

DeclaredLines(cs) == [i \in 1..Len(cs) |-> Stringify(DeclaredEvent(cs[i]))]

IsPrompt(r) == req[r].method = "POST" /\ req[r].url = "/prompt"

IsHealth(r) == req[r].method = "GET" /\ req[r].url = "/health"

Arrived(r) == pc[r] # "idle"

\* The listener of the request has run to its end, one way or the other.
Finished(r) == pc[r] \in {"returned", "rejected"}

\* The response is the streaming one: 200 with the NDJSON headers.
Streaming(response) ==
  /\ response.headersSent
  /\ response.statusCode = 200
  /\ <<"Content-Type", "application/x-ndjson">> \in response.headers
  /\ <<"Transfer-Encoding", "chunked">> \in response.headers

\* The prompt of a request body as the protocol sees it: the member of a
\* JSON object, absent in every other JSON value.
SentPrompt(r) ==
  IF req[r].body.kind = "json" /\ req[r].body.value.t = "object"
  THEN Member(req[r].body.value, "prompt")
  ELSE Undefined

\* The accepted shapes: a non-empty string, or a sequence of content blocks.
AcceptedPrompt(prompt) ==
  \/ prompt.t = "string" /\ prompt.v # <<>>
  \/ prompt.t = "array"

\* ------------------------------------------------------------------------
\* C1.  While the prompt handler has not failed, the body of its response
\* is exactly one line per emitter call it has made, the i-th line being
\* the JSON of the i-th call's event, each ended by a newline: none lost,
\* doubled, merged or out of order.
\* ------------------------------------------------------------------------
C1_LinesAreTheCallsInOrder ==
  \A r \in Requests :
    hstate[r] \in {"running", "resolved"} =>
      /\ BodyLines(res[r].body).lines = DeclaredLines(calls[r])
      /\ BodyLines(res[r].body).rest = <<>>

\* ------------------------------------------------------------------------
\* C2.  When the prompt handler has failed with message M, the listener's
\* step appends to the lines already written exactly one line, the error
\* event with message M, and ends the response in that step; nothing is
\* written between the failure and that step, nor after it.
\* ------------------------------------------------------------------------
HasMessage(err) == err.t \in {"Error", "string"}

ErrorLineOf(message) ==
  <<"{", QUOTE, "type", QUOTE, ":", QUOTE, "error", QUOTE, ",",
    QUOTE, "message", QUOTE, ":", QUOTE>> \o EscapeChars(message)
    \o <<QUOTE, "}", NL>>

FailedWithMessage(r) == hstate[r] = "rejected" /\ HasMessage(herr[r])

C2_ErrorLineThenEnd ==
  [][\A r \in Requests :
       FailedWithMessage(r) =>
         /\ pc[r] = "onPrompt" /\ pc'[r] # "onPrompt" =>
              /\ ~res[r].ended
              /\ res'[r].body = res[r].body \o ErrorLineOf(herr[r].v)
              /\ res'[r].ended /\ res'[r].endCalls = 1
              /\ pc'[r] = "returned"
         /\ pc[r] = pc'[r] => res'[r] = res[r]]_vars

C2_Witness ==
  \E r \in Requests :
    /\ FailedWithMessage(r) /\ pc[r] = "returned" /\ res[r].ended
    /\ Len(calls[r]) = 2
    /\ Len(BodyLines(res[r].body).lines) = 3
    /\ BodyLines(res[r].body).lines[3] \o <<NL>> = ErrorLineOf(herr[r].v)

\* ------------------------------------------------------------------------
\* C3.  The prompt handler is invoked on a response whose headers are
\* already committed as 200 with the NDJSON headers and whose body is still
\* empty; and no response carries body text before its headers.
\* ------------------------------------------------------------------------
C3_HeadersBeforeHandler ==
  \A r \in Requests :
    /\ hstate[r] # "none" =>
         /\ Streaming(hcall[r].res)
         /\ hcall[r].res.headers = NdjsonHeaders
         /\ hcall[r].res.writeHeadCalls = <<200>>
         /\ hcall[r].res.body = <<>>
         /\ ~hcall[r].res.ended
    /\ res[r].body # <<>> => res[r].headersSent

C3_Witness ==
  \E r \in Requests :
    /\ hstate[r] = "running" /\ Len(calls[r]) = 1
    /\ Len(BodyLines(res[r].body).lines) = 1

\* ------------------------------------------------------------------------
\* C4.  A POST /prompt whose body is JSON but whose prompt is missing or of
\* no accepted shape is answered 400 with the fixed error body, and no
\* NDJSON line is written for it.
\* ------------------------------------------------------------------------
InvalidPromptBody ==
  <<"{", QUOTE, "error", QUOTE, ":", QUOTE,
    "Missing or invalid 'prompt' field", QUOTE, "}">>

JsonWithBadPrompt(r) ==
  /\ IsPrompt(r)
  /\ req[r].body.kind = "json"
  /\ ~AcceptedPrompt(SentPrompt(r))

C4_BadPromptIs400 ==
  \A r \in Requests :
    JsonWithBadPrompt(r) /\ Finished(r) =>
      /\ res[r].statusCode = 400
      /\ res[r].body = InvalidPromptBody
      /\ res[r].ended
      /\ hstate[r] = "none"

\* ------------------------------------------------------------------------
\* C5.  A POST /prompt whose prompt is a non-empty string or a sequence of
\* content blocks passes validation: once its body is parsed, the response
\* is the streaming one and the prompt handler has been invoked with that
\* prompt.
\* ------------------------------------------------------------------------
C5_AcceptedPromptStreams ==
  \A r \in Requests :
    /\ IsPrompt(r) /\ req[r].body.kind = "json"
    /\ AcceptedPrompt(SentPrompt(r))
    /\ pc[r] \notin {"idle", "parseBody"}
    => /\ hstate[r] # "none"
       /\ hcall[r].prompt = SentPrompt(r)
       /\ Streaming(res[r])

\* ------------------------------------------------------------------------
\* C6.  A POST /prompt whose body does not parse as JSON is answered with
\* status 400.
\* ------------------------------------------------------------------------
C6_MalformedBodyIs400 ==
  \A r \in Requests :
    IsPrompt(r) /\ req[r].body.kind = "malformed" /\ Finished(r) =>
      res[r].statusCode = 400

\* ------------------------------------------------------------------------
\* C7.  A POST /prompt that fails body parsing or prompt validation never
\* streams: no 200 and no NDJSON header is ever written, no body text
\* before the error response, the prompt handler is never invoked, and the
\* finished response carries a 4xx or 5xx status.
\* ------------------------------------------------------------------------
FailsParsingOrValidation(r) ==
  /\ IsPrompt(r)
  /\ Arrived(r)
  /\ req[r].body.kind # "json" \/ ~AcceptedPrompt(SentPrompt(r))

C7_InvalidNeverStreams ==
  \A r \in Requests :
    FailsParsingOrValidation(r) =>
      /\ hstate[r] = "none" /\ calls[r] = <<>>
      /\ \A i \in 1..Len(res[r].writeHeadCalls) : res[r].writeHeadCalls[i] # 200
      /\ ~Streaming(res[r])
      /\ <<"Content-Type", "application/x-ndjson">> \notin res[r].headers
      /\ BodyLines(res[r].body).lines = <<>>
      /\ ~Finished(r) => res[r].body = <<>> /\ ~res[r].headersSent
      /\ Finished(r) =>
           /\ res[r].statusCode \in 400..599
           /\ res[r].ended
           /\ res[r].headers = JsonHeaders

\* A request whose prompt is a number has been answered 400.
C7_Witness ==
  \E r \in Requests :
    /\ FailsParsingOrValidation(r) /\ Finished(r)
    /\ req[r].body.kind = "json" /\ SentPrompt(r).t = "number"
    /\ res[r].statusCode = 400

\* ------------------------------------------------------------------------
\* C8.  The commit is one-way: once the 200 streaming headers are written
\* for a request, no later step of it calls writeHead again, whatever fails
\* after the commit.
\* ------------------------------------------------------------------------
C8_NoHeadersAfterCommit ==
  \A r \in Requests :
    hstate[r] # "none" => res[r].writeHeadCalls = <<200>>

\* ------------------------------------------------------------------------
\* C9.  A /prompt request that entered the streaming phase and whose
\* handler has settled has its response ended exactly once by the time its
\* listener is through.
\* ------------------------------------------------------------------------
C9_SettledStreamIsEnded ==
  \A r \in Requests :
    hstate[r] \in {"resolved", "rejected"} /\ Finished(r) =>
      res[r].ended /\ res[r].endCalls = 1

\* ------------------------------------------------------------------------
\* C10.  GET /health is answered 200 with a JSON body that reads back as
\* the health handler's result, field by field, when a handler is given
\* and has resolved, and with exactly {"status":"ok"} when none is given.
\* ------------------------------------------------------------------------

\* Reading a JSON text back: an object of string members.
UnescapeChar(c) ==
  IF c = "\\n" THEN NL
  ELSE IF c = "\\\"" THEN QUOTE
  ELSE c

\* The characters of a string from position i (after the opening quote) up
\* to the closing quote: [chars, next].
RECURSIVE ReadString(_, _, _)
ReadString(text, i, acc) ==
  IF i > Len(text) THEN [chars |-> acc, next |-> i]
  ELSE IF text[i] = QUOTE THEN [chars |-> acc, next |-> i + 1]
  ELSE ReadString(text, i + 1, Append(acc, UnescapeChar(text[i])))

\* The members from position i (a key's opening quote, or the closing
\* brace) on, as <<key, characters>> pairs.
RECURSIVE ReadMembers(_, _, _)
ReadMembers(text, i, acc) ==
  IF i + 5 > Len(text) \/ text[i] # QUOTE THEN acc
  ELSE LET key == text[i + 1]
           val == ReadString(text, i + 5, <<>>)
       IN ReadMembers(text, val.next + 1, Append(acc, <<key, val.chars>>))

ReadObject(text) == ReadMembers(text, 2, <<>>)

\* The members of a handler's result that JSON can carry: those defined.
RECURSIVE JsonMembers(_, _)
JsonMembers(members, i) ==
  IF i > Len(members) THEN <<>>
  ELSE (IF members[i][2].t = "undefined" THEN <<>>
        ELSE << <<members[i][1], members[i][2].v>> >>)
       \o JsonMembers(members, i + 1)

StatusOk == <<"{", QUOTE, "status", QUOTE, ":", QUOTE, "ok", QUOTE, "}">>

HealthAnswered(r) ==
  /\ IsHealth(r)
  /\ pc[r] = "returned"
  /\ onHealthCheck => healthData[r] # Undefined

C10_HealthBodyIsResult ==
  \A r \in Requests :
    HealthAnswered(r) =>
      /\ res[r].statusCode = 200
      /\ res[r].writeHeadCalls = <<200>>
      /\ res[r].headers = JsonHeaders
      /\ res[r].ended /\ res[r].endCalls = 1
      /\ Head(res[r].body) = "{" /\ res[r].body[Len(res[r].body)] = "}"
      /\ IF onHealthCheck
         THEN ReadObject(res[r].body) = JsonMembers(healthData[r].v, 1)
         ELSE res[r].body = StatusOk

\* A handler's result with two fields was passed through.
C10_Witness ==
  \E r \in Requests :
    /\ HealthAnswered(r) /\ onHealthCheck
    /\ Len(healthData[r].v) = 2
    /\ ReadObject(res[r].body) = << <<"status", <<"ok">> >>, <<"sandbox_id", <<"x">> >> >>

\* ------------------------------------------------------------------------
\* C11.  When the health handler has rejected with message M, GET /health
\* is answered 500 with the body {"error": M}, and no 200 is written for
\* the request.
\* ------------------------------------------------------------------------
HealthFailedWithMessage(r) ==
  /\ IsHealth(r)
  /\ Finished(r)
  /\ herr[r] # Undefined
  /\ HasMessage(herr[r])

ErrorBodyOf(message) ==
  <<"{", QUOTE, "error", QUOTE, ":", QUOTE>> \o EscapeChars(message)
    \o <<QUOTE, "}">>

C11_HealthFailureIs500 ==
  \A r \in Requests :
    HealthFailedWithMessage(r) =>
      /\ res[r].statusCode = 500
      /\ res[r].writeHeadCalls = <<500>>
      /\ res[r].headers = JsonHeaders
      /\ res[r].body = ErrorBodyOf(herr[r].v)
      /\ res[r].ended /\ res[r].endCalls = 1
      /\ pc[r] = "returned"

C11_Witness ==
  \E r \in Requests :
    /\ HealthFailedWithMessage(r)
    /\ herr[r] = ErrorOf(<<"boom">>)
    /\ res[r].statusCode = 500

\* ------------------------------------------------------------------------
\* C12.  A request that is neither GET /health nor POST /prompt (GET
\* /prompt and POST /health among them) is answered 404 with the body
\* {"error":"Not found"}, and neither handler is invoked for it.
\* ------------------------------------------------------------------------
Unmatched(r) == Arrived(r) /\ ~IsHealth(r) /\ ~IsPrompt(r)

NotFoundBody ==
  <<"{", QUOTE, "error", QUOTE, ":", QUOTE, "Not found", QUOTE, "}">>

C12_UnmatchedIs404 ==
  \A r \in Requests :
    Unmatched(r) =>
      /\ pc[r] = "returned"
      /\ res[r].statusCode = 404
      /\ res[r].writeHeadCalls = <<404>>
      /\ res[r].headers = JsonHeaders
      /\ res[r].body = NotFoundBody
      /\ res[r].ended /\ res[r].endCalls = 1
      /\ hstate[r] = "none" /\ calls[r] = <<>>
      /\ healthData[r] = Undefined /\ herr[r] = Undefined

C12_Witness ==
  \E r \in Requests :
    /\ Unmatched(r)
    /\ req[r].method = "GET" /\ req[r].url = "/prompt"
    /\ res[r].statusCode = 404

\* ------------------------------------------------------------------------
\* C13.  In any order of start and stop calls: a stop on a Server without
\* an http.Server (never started, or stopped) resolves and changes
\* nothing, and no stop promise is ever rejected, a second stop issued
\* before the first has completed included.
\* ------------------------------------------------------------------------
StopIsNoOp(s) ==
  /\ stops'[s].state = "resolved"
  /\ httpServer' = httpServer
  /\ listeners' = listeners
  /\ process' = process

C13_StopNeverRejects ==
  /\ [](\A s \in StopIds : stops[s].state # "rejected")
  /\ [][\A s \in StopIds :
          stops[s].state = "none" /\ stops'[s].state # "none"
          /\ httpServer = NullServer => StopIsNoOp(s)]_vars

\* ------------------------------------------------------------------------
\* C14.  start on a started Server fails or does nothing: the Server
\* refers to every http.Server that listens, at most one listens, and
\* while the one it refers to listens no step creates another http.Server
\* or changes the reference.
\* ------------------------------------------------------------------------
Listening == {id \in ServerIds : listeners[id] = "listening"}

C14_StartKeepsTheListener ==
  /\ [](Cardinality(Listening) <= 1 /\ \A id \in Listening : httpServer = id)
  /\ [][httpServer # NullServer /\ listeners[httpServer] = "listening" =>
          /\ httpServer' = httpServer
          /\ \A id \in ServerIds :
               listeners[id] = "none" => listeners'[id] = "none"]_vars

\* ------------------------------------------------------------------------
\* C15.  With two requests in flight in any interleaving: the lines of a
\* /prompt response are the events its own handler has emitted, in the
\* order of the calls, and a step of one request (an emitter call, a
\* settling, a response) leaves all that belongs to the other request as
\* it is.
\* ------------------------------------------------------------------------
\* The calls of a handler that the emitter carried out.
Emitted(cs) == SelectSeq(cs, LAMBDA c : ~EmitterThrows(c))

OfRequest(r) ==
  <<req[r], res[r], pc[r], hstate[r], hcall[r], herr[r], calls[r],
    healthData[r], conn[r]>>

C15_StreamsAreSeparate ==
  [][\A r \in AllRequests :
       /\ hstate'[r] \in {"running", "resolved"} =>
            BodyLines(res'[r].body).lines = DeclaredLines(Emitted(calls'[r]))
       /\ OfRequest(r)' # OfRequest(r) =>
            \A q \in AllRequests \ {r} : OfRequest(q)' = OfRequest(q)]_vars

\* Both handlers are running and have emitted different events.
C15_Witness ==
  /\ \A r \in AllRequests :
       /\ hstate[r] = "running"
       /\ Len(calls[r]) = 2
       /\ Len(BodyLines(res[r].body).lines) = 2
  /\ calls["r1"][1] # calls["r2"][1]
  /\ res["r1"].body # res["r2"].body

\* ------------------------------------------------------------------------
\* C16.  A handler that fails, the prompt handler or the health handler,
\* never brings the process down (no unhandled rejection ends it), and
\* the step in which it fails and the steps that answer the failure leave
\* the http.Servers and every other request as they are.
\* ------------------------------------------------------------------------
Failed(r) == herr[r] # Undefined

C16_FailureStaysInItsRequest ==
  /\ [](process # "unhandledRejection")
  /\ [][\A r \in AllRequests :
          Failed(r)' /\ OfRequest(r)' # OfRequest(r) =>
            /\ listeners' = listeners
            /\ \A q \in AllRequests \ {r} : OfRequest(q)' = OfRequest(q)]_vars

\* ------------------------------------------------------------------------
\* C17.  A /prompt request moves only along received -> validating ->
\* rejected[400] or streaming -> handler-running -> closed: it ends in
\* rejected[400] or in closed and in no other state, nothing leaves these
\* two, and nothing leads back to validating.  (received passes into
\* validating, and streaming into handler-running, within one step.)
\* ------------------------------------------------------------------------
PromptState(r) ==
  IF pc[r] = "idle" THEN "none"
  ELSE IF pc[r] = "parseBody" THEN "validating"
  ELSE IF pc[r] = "onPrompt" /\ Streaming(res[r]) /\ ~res[r].ended
       THEN "handler-running"
  ELSE IF pc[r] = "returned" /\ res[r].statusCode = 400 /\ res[r].ended
       THEN "rejected[400]"
  ELSE IF pc[r] = "returned" /\ Streaming(res[r]) /\ res[r].ended
       THEN "closed"
  ELSE "other"

PromptTransitions ==
  {<<"none", "validating">>,
   <<"validating", "rejected[400]">>,
   <<"validating", "handler-running">>,
   <<"handler-running", "closed">>}

C17_PromptStateMachine ==
  [][\A r \in Requests :
       IsPrompt(r)' =>
         \/ PromptState(r)' = PromptState(r)
         \/ <<PromptState(r), PromptState(r)'>> \in PromptTransitions]_vars

\* ------------------------------------------------------------------------
\* C18.  The emitter has the six operations of the EventEmitter interface,
\* and every call of one of them by the handler writes, in that step, one
\* line to the open response: the JSON of the event and a newline (for
\* custom, of the caller's object).
\* ------------------------------------------------------------------------
C18_EveryOperationWritesOneLine ==
  [][\A r \in Requests :
       Len(calls'[r]) = Len(calls[r]) + 1 =>
         LET call == calls'[r][Len(calls'[r])]
         IN /\ call.op \in InterfaceOps => call.op \in EmitterOps
            /\ res'[r].body =
                 res[r].body \o Stringify(DeclaredEvent(call)) \o <<NL>>
            /\ hstate'[r] = hstate[r]]_vars

\* ------------------------------------------------------------------------
\* C19.  An error or done event does not end the response: while the
\* handler runs the response is open and its lines are the events emitted
\* so far, in order, whatever these are; a response is ended only once the
\* handler has settled, and the one of a handler that has resolved and
\* been awaited is ended, with or without a done event.
\* ------------------------------------------------------------------------
C19_OnlyCompletionEndsTheStream ==
  \A r \in Requests :
    /\ hstate[r] = "running" => ~res[r].ended
    /\ hstate[r] \in {"running", "resolved"} =>
         /\ BodyLines(res[r].body).lines = DeclaredLines(Emitted(calls[r]))
         /\ BodyLines(res[r].body).rest = <<>>
    /\ hstate[r] # "none" /\ res[r].ended => pc[r] = "returned"
    /\ hstate[r] = "resolved" /\ pc[r] = "returned" =>
         res[r].ended /\ res[r].endCalls = 1

\* A handler emitted done, then a text chunk, and resolved: both lines are
\* in the ended stream.
C19_Witness ==
  \E r \in Requests :
    /\ hstate[r] = "resolved" /\ pc[r] = "returned" /\ res[r].ended
    /\ Len(calls[r]) = 2
    /\ calls[r][1].op = "done" /\ calls[r][2].op = "textChunk"
    /\ BodyLines(res[r].body).lines = DeclaredLines(calls[r])

\* ------------------------------------------------------------------------
\* C20.  A stop called while a /prompt request streams cuts nothing short:
\* the steps of stop and of close leave every response as it is, the lines
\* of a response stay the events its handler has emitted, a stop promise
\* that called close resolves only in the step in which the http.Server
\* closes, which needs every request it accepted to be through, its
\* response ended and its connection closed, and the reference httpServer
\* is cleared in that step only.
\* ------------------------------------------------------------------------
Through(r) ==
  /\ Finished(r)
  /\ pc[r] = "returned" => res[r].ended
  /\ ~conn[r].open

Closes(id) == listeners[id] # "closed" /\ listeners'[id] = "closed"

====
